---- MODULE Spec2Model ----
(***************************************************************************)
(* The binary-heap priority queue of MParolari/priority_queue:             *)
(* class BinHeapPQ<T> of src/BinHeapPQ.cpp (src/priorityQueue.cpp is the   *)
(* same code under the class name PriorityQueue<item_t>).                  *)
(*                                                                         *)
(* Representation.  BinHeapPQ::heap is an array of pointers to separately  *)
(* allocated PriorityItem objects, and a handle is the address of such an  *)
(* object.  Objects never move and the code never compares or computes     *)
(* with addresses, so a state is recorded up to renaming of addresses:     *)
(* heap[i] is the object that slot i points to, with its three fields,     *)
(* and a live handle is named by the slot its object occupies at the       *)
(* moment of the call.  The field pos is the value the code stored in the  *)
(* object; nothing in the model forces it to equal the slot index.         *)
(***************************************************************************)
EXTENDS Integers, Sequences, FiniteSets, TLC

\* ---- bounds ----
MaxCap  == 4      \* constructions BinHeapPQ<Items>(0..MaxCap)
DeepCap == 7      \* one more construction, BinHeapPQ<Unit>(DeepCap)
MaxPrio == 2      \* priorities (py_t) are drawn from 0..MaxPrio
StaleCap == 3     \* constructions BinHeapPQ<Items>(0..StaleCap) of SpecStale
SiftCap == 6      \* arrays of 0..SiftCap entries of SpecSift

Priorities == 0..MaxPrio
Items      == {"a", "b"}           \* a two-valued T
Unit       == {"a"}                \* a one-valued T
NoPrio     == "none"               \* no object was deleted by the call
PosMod     == 65536                \* pos_t is unsigned short

VARIABLES
  T,         \* the values of the template parameter T
  maxSize,   \* BinHeapPQ::maxSize
  size,      \* BinHeapPQ::size
  heap,      \* BinHeapPQ::heap, slots [0, size): the object each points to
  freed,     \* TRUE once an object whose handle was returned has been deleted
  ret,       \* the last public call: how it returned, and through which line
  alive,     \* the queue has been constructed and not yet destroyed
  objects    \* PriorityItem objects created by new and not yet deleted

vars == <<T, maxSize, size, heap, freed, ret, alive, objects>>

\* struct PriorityItem { py_t priority; T item; pos_t pos; }
\* written is history: the last priority stored into this object through
\* its own handle (by emplace, decrease or increase)
PriorityItem(p, v, i) == [priority |-> p, item |-> v, pos |-> i, written |-> p]

\* the queue as one value; the operators below are the member functions
Q == [size |-> size, heap |-> heap]

Restrict(f, S) == [x \in S |-> f[x]]

isEmpty(q) == q.size = 0

isFull(q, cap) == q.size = cap

\* mutant of min: the value of the last slot instead of the first
min_last(q) ==
  IF q.size > 0
  THEN [exit |-> "return", val |-> q.heap[q.size - 1].item, line |-> 125]
  ELSE [exit |-> "throw", val |-> "Empty priority queue!", line |-> 126]

\* BinHeapPQ::min
min(q) ==
  IF q.size > 0
  THEN [exit |-> "return", val |-> q.heap[0].item, line |-> 125]
  ELSE [exit |-> "throw", val |-> "Empty priority queue!", line |-> 126]

\* mutant of swap: the pointers are exchanged, the pos fields are not updated
swap_nopos(q, i, j) ==
  LET h1 == [q.heap EXCEPT ![i] = q.heap[j]]
      h2 == [h1 EXCEPT ![j] = q.heap[i]]
  IN  [q EXCEPT !.heap = h2]

\* mutant of swap: the priorities and values are exchanged between the two
\* objects, the pointers stay
swap_fields(q, i, j) ==
  LET h1 == [q.heap EXCEPT ![i].priority = q.heap[j].priority,
                           ![i].item = q.heap[j].item]
      h2 == [h1 EXCEPT ![j].priority = q.heap[i].priority,
                       ![j].item = q.heap[i].item]
  IN  [q EXCEPT !.heap = h2]

\* swap(heap[i], heap[j]): a and b are references to the two slots
swap(q, i, j) ==
  LET a_pos == q.heap[i].pos
      b_pos == q.heap[j].pos
      h1    == [q.heap EXCEPT ![i] = q.heap[j]]     \* a = b
      h2    == [h1 EXCEPT ![j] = q.heap[i]]         \* b = tmp
      h3    == [h2 EXCEPT ![i].pos = a_pos]         \* a->pos = a_pos
      h4    == [h3 EXCEPT ![j].pos = b_pos]         \* b->pos = b_pos
  IN  [q EXCEPT !.heap = h4]

\* mutant of upRestore: "if" for "while", a single step towards the root
upRestore_once(q, i) ==
  IF i > 0 /\ q.heap[i].priority < q.heap[i \div 2].priority
  THEN swap(q, i, i \div 2)
  ELSE q

RECURSIVE upRestore(_, _)
upRestore(q, i) ==
  IF i > 0 /\ q.heap[i].priority < q.heap[i \div 2].priority
  THEN upRestore(swap(q, i, i \div 2), i \div 2)
  ELSE q

\* mutant of downRestore: the child at 2i+1 is never looked at
RECURSIVE downRestore_leftOnly(_, _)
downRestore_leftOnly(q, i) ==
  LET min1 == IF 2*i < q.size /\ q.heap[2*i].priority < q.heap[i].priority
              THEN 2*i ELSE i
  IN  IF min1 # i THEN downRestore_leftOnly(swap(q, i, min1), min1) ELSE q

\* mutant of downRestore: the children of i are taken at 2i+1 and 2i+2
RECURSIVE downRestore_std(_, _)
downRestore_std(q, i) ==
  LET min0 == i
      min1 == IF 2*i + 1 < q.size
                 /\ q.heap[2*i + 1].priority < q.heap[min0].priority
              THEN 2*i + 1 ELSE min0
      min2 == IF 2*i + 2 < q.size
                 /\ q.heap[2*i + 2].priority < q.heap[min1].priority
              THEN 2*i + 2 ELSE min1
  IN  IF min2 # i THEN downRestore_std(swap(q, i, min2), min2) ELSE q

RECURSIVE downRestore(_, _)
downRestore(q, i) ==
  LET min0 == i
      min1 == IF 2*i < q.size /\ q.heap[2*i].priority < q.heap[min0].priority
              THEN 2*i ELSE min0
      min2 == IF 2*i + 1 < q.size
                 /\ q.heap[2*i + 1].priority < q.heap[min1].priority
              THEN 2*i + 1 ELSE min1
  IN  IF min2 # i THEN downRestore(swap(q, i, min2), min2) ELSE q

\* mutant of emplace: size++ is missing
emplace_nosize(q, priority, item) ==
  LET h1 == (q.size :> PriorityItem(priority, item, q.size)) @@ q.heap
      q1 == [size |-> q.size, heap |-> h1]
  IN  upRestore(q1, q.size)

\* emplace past the capacity test (lines 209-212)
emplace(q, priority, item) ==
  LET h1 == (q.size :> PriorityItem(priority, item, q.size)) @@ q.heap
      q1 == [size |-> (q.size + 1) % PosMod, heap |-> h1]
  IN  upRestore(q1, (q1.size - 1) % PosMod)

\* mutant of decrease: the guard of line 224 is missing
decrease_noguard(q, newPriority, pi) ==
  LET q1 == [q EXCEPT !.heap[q.heap[pi].pos].priority = newPriority]
      q2 == [q1 EXCEPT !.heap[pi].written = newPriority]
  IN  upRestore(q2, q.heap[pi].pos)

\* pi is the slot of the object the handle points to
decrease(q, newPriority, pi) ==
  IF newPriority >= q.heap[pi].priority THEN q
  ELSE LET q1 == [q EXCEPT !.heap[q.heap[pi].pos].priority = newPriority]
           q2 == [q1 EXCEPT !.heap[pi].written = newPriority]
       IN  upRestore(q2, q.heap[pi].pos)

increase(q, newPriority, pi) ==
  IF newPriority <= q.heap[pi].priority THEN q
  ELSE LET q1 == [q EXCEPT !.heap[q.heap[pi].pos].priority = newPriority]
           q2 == [q1 EXCEPT !.heap[pi].written = newPriority]
       IN  downRestore(q2, q.heap[pi].pos)

\* decrease and increase through a dangling handle: the object was deleted,
\* so what pi->priority and pi->pos read is indeterminate; rp and k are the
\* values read, k < size (the write of line 226/240 lands in the live
\* object of slot k)
decreaseStale(q, newPriority, rp, k) ==
  IF newPriority >= rp THEN q
  ELSE upRestore([q EXCEPT !.heap[k].priority = newPriority], k)

increaseStale(q, newPriority, rp, k) ==
  IF newPriority <= rp THEN q
  ELSE downRestore([q EXCEPT !.heap[k].priority = newPriority], k)

\* mutant of deleteMin: the test of line 249 is missing
deleteMin_unguarded(q) ==
  LET q1 == IF q.size > 1 THEN swap(q, 0, q.size - 1) ELSE q
      q2 == [size |-> (q1.size - 1) % PosMod,
             heap |-> Restrict(q1.heap, 0..(q1.size - 2))]
  IN  IF q2.size > 1 /\ q1.size > 0 THEN downRestore(q2, 0) ELSE q2

\* the object deleteMin hands to delete (lines 252-254)
deleted(q) ==
  LET q1 == IF q.size > 1 THEN swap(q, 0, q.size - 1) ELSE q
  IN  q1.heap[q1.size - 1]

\* mutant of deleteMin: the heap is not restored after the deletion
deleteMin_norestore(q) ==
  IF q.size <= 0 THEN q
  ELSE LET q1 == IF q.size > 1 THEN swap(q, 0, q.size - 1) ELSE q
       IN  [size |-> q1.size - 1,
            heap |-> Restrict(q1.heap, 0..(q1.size - 2))]

\* mutant of deleteMin: size-- is missing, the deleted object's slot stays
\* inside [0, size)
deleteMin_noshrink(q) ==
  IF q.size <= 0 THEN q
  ELSE LET q1 == IF q.size > 1 THEN swap(q, 0, q.size - 1) ELSE q
           q2 == [size |-> q1.size - 1,
                  heap |-> Restrict(q1.heap, 0..(q1.size - 2))]
           q3 == IF q2.size > 1 THEN downRestore(q2, 0) ELSE q2
       IN  [q3 EXCEPT !.size = q.size]

\* mutant of deleteMin: the root is not swapped to the end, the last object
\* is the one deleted
deleteMin_noswap(q) ==
  IF q.size <= 0 THEN q
  ELSE LET q2 == [size |-> q.size - 1,
                  heap |-> Restrict(q.heap, 0..(q.size - 2))]
       IN  IF q2.size > 1 THEN downRestore(q2, 0) ELSE q2

deleteMin(q) ==
  IF q.size <= 0 THEN q
  ELSE LET q1 == IF q.size > 1 THEN swap(q, 0, q.size - 1) ELSE q
           q2 == [size |-> q1.size - 1,
                  heap |-> Restrict(q1.heap, 0..(q1.size - 2))]
       IN  IF q2.size > 1 THEN downRestore(q2, 0) ELSE q2

\* a call record
Ret(op, exit, val, line, rem) ==
  [op |-> op, exit |-> exit, val |-> val, line |-> line, rem |-> rem]

Install(q) == /\ size' = q.size
              /\ heap' = q.heap

\* the instantiations and constructor calls explored
Constructions ==
  [T : {Items}, maxSize : 0..MaxCap] \cup [T : {Unit}, maxSize : {DeepCap}]

\* BinHeapPQ(pos_t maxSize)
Init ==
  /\ \E c \in Constructions : T = c.T /\ maxSize = c.maxSize
  /\ size  = 0
  /\ heap  = << >>
  /\ freed = FALSE
  /\ ret   = Ret("new", "return", "void", 83, NoPrio)
  /\ alive = TRUE
  /\ objects = 0

IsEmpty ==
  /\ alive
  /\ ret' = Ret("isEmpty", "return", IF isEmpty(Q) THEN "true" ELSE "false", 100, NoPrio)
  /\ UNCHANGED <<T, maxSize, size, heap, freed, alive, objects>>

IsFull ==
  /\ alive
  /\ ret' = Ret("isFull", "return", IF isFull(Q, maxSize) THEN "true" ELSE "false", 110, NoPrio)
  /\ UNCHANGED <<T, maxSize, size, heap, freed, alive, objects>>

\* mutant of Min: the minimum is taken out as it is read
Min_pop ==
  /\ alive
  /\ LET r == min(Q) IN ret' = Ret("min", r.exit, r.val, r.line, NoPrio)
  /\ Install(deleteMin(Q))
  /\ UNCHANGED <<T, maxSize, freed, alive, objects>>

Min ==
  /\ alive
  /\ LET r == min(Q) IN ret' = Ret("min", r.exit, r.val, r.line, NoPrio)
  /\ UNCHANGED <<T, maxSize, size, heap, freed, alive, objects>>

\* mutant of Emplace: the capacity test is off by one
Emplace_offByOne(p, v) ==
  /\ alive
  /\ IF size > maxSize
     THEN /\ ret' = Ret("emplace", "return", "nullptr", 208, NoPrio)
          /\ UNCHANGED <<size, heap, objects>>
     ELSE /\ Install(emplace(Q, p, v))
          /\ objects' = objects + 1                    \* new, line 209
          /\ ret' = Ret("emplace", "return", "handle", 213, NoPrio)
  /\ UNCHANGED <<T, maxSize, freed, alive>>

Emplace(p, v) ==
  /\ alive
  /\ IF size >= maxSize
     THEN /\ ret' = Ret("emplace", "return", "nullptr", 208, NoPrio)
          /\ UNCHANGED <<size, heap, objects>>
     ELSE /\ Install(emplace(Q, p, v))
          /\ objects' = objects + 1                    \* new, line 209
          /\ ret' = Ret("emplace", "return", "handle", 213, NoPrio)
  /\ UNCHANGED <<T, maxSize, freed, alive>>

Decrease(p, pi) ==
  /\ alive
  /\ pi \in 0..(size - 1)
  /\ Install(decrease(Q, p, pi))
  /\ ret' = Ret("decrease", "return", "void",
                IF p >= heap[pi].priority THEN 225 ELSE 228, NoPrio)
  /\ UNCHANGED <<T, maxSize, freed, alive, objects>>

Increase(p, pi) ==
  /\ alive
  /\ pi \in 0..(size - 1)
  /\ Install(increase(Q, p, pi))
  /\ ret' = Ret("increase", "return", "void",
                IF p <= heap[pi].priority THEN 239 ELSE 242, NoPrio)
  /\ UNCHANGED <<T, maxSize, freed, alive, objects>>

\* line records the return statement the inputs select: 225 when
\* newPriority >= pi->priority (239: <=), 250 when size <= 0
DeleteMin ==
  /\ alive
  /\ Install(deleteMin(Q))
  /\ IF size <= 0
     THEN /\ ret' = Ret("deleteMin", "return", "void", 250, NoPrio)
          /\ UNCHANGED <<freed, objects>>
     ELSE /\ ret' = Ret("deleteMin", "return", "void", 259, deleted(Q).priority)
          /\ freed' = TRUE
          /\ objects' = objects - 1                    \* delete, line 254
  /\ UNCHANGED <<T, maxSize, alive>>

\* mutant of Destroy: only the array is deleted, delete[] heap
Destroy_arrayOnly ==
  /\ alive
  /\ alive' = FALSE
  /\ freed' = (freed \/ size > 0)
  /\ ret' = Ret("~BinHeapPQ", "return", "void", 91, NoPrio)
  /\ UNCHANGED <<T, maxSize, size, heap, objects>>

\* ~BinHeapPQ(): delete heap[i] for every i < size, then delete[] heap.
\* The members are not written: the state keeps their last values, which
\* no operation reads once the queue is destroyed.
Destroy ==
  /\ alive
  /\ alive' = FALSE
  /\ objects' = objects - Cardinality({i \in 0..(size - 1) : i \in DOMAIN heap})
  /\ freed' = (freed \/ size > 0)
  /\ ret' = Ret("~BinHeapPQ", "return", "void", 91, NoPrio)
  /\ UNCHANGED <<T, maxSize, size, heap>>

Next ==
  \/ IsEmpty
  \/ IsFull
  \/ Min
  \/ \E p \in Priorities, v \in T : Emplace(p, v)
  \/ \E p \in Priorities, pi \in 0..(size - 1) : Decrease(p, pi)
  \/ \E p \in Priorities, pi \in 0..(size - 1) : Increase(p, pi)
  \/ DeleteMin
  \/ Destroy

Spec == Init /\ [][Next]_vars

\* ---- calls through a dangling handle ----
\* The handle of a deleted object stays in the caller's hands (the TODO of
\* line 66).  A call through it reads freed memory: rp is what pi->priority
\* yields, k what pi->pos yields, any priority and any position.  The runs
\* followed are those in which the call returns at once (line 225/239) or
\* k is in [0, size); with k outside, the call goes on through a pointer
\* the queue does not own, and what happens then is not modelled.
StaleDecrease(p, rp, k) ==
  /\ alive
  /\ freed
  /\ IF p >= rp
     THEN /\ ret' = Ret("decrease stale", "return", "void", 225, NoPrio)
          /\ UNCHANGED <<size, heap>>
     ELSE /\ k < size
          /\ Install(decreaseStale(Q, p, rp, k))
          /\ ret' = Ret("decrease stale", "return", "void", 228, NoPrio)
  /\ UNCHANGED <<T, maxSize, freed, alive, objects>>

StaleIncrease(p, rp, k) ==
  /\ alive
  /\ freed
  /\ IF p <= rp
     THEN /\ ret' = Ret("increase stale", "return", "void", 239, NoPrio)
          /\ UNCHANGED <<size, heap>>
     ELSE /\ k < size
          /\ Install(increaseStale(Q, p, rp, k))
          /\ ret' = Ret("increase stale", "return", "void", 242, NoPrio)
  /\ UNCHANGED <<T, maxSize, freed, alive, objects>>

NextStale ==
  \/ Next
  \/ \E p \in Priorities, rp \in Priorities, k \in 0..maxSize :
       StaleDecrease(p, rp, k)
  \/ \E p \in Priorities, rp \in Priorities, k \in 0..maxSize :
       StaleIncrease(p, rp, k)

InitStale ==
  /\ Init
  /\ T = Items /\ maxSize <= StaleCap

SpecStale == InitStale /\ [][NextStale]_vars

\* ---- the two sift loops, iteration by iteration ----
\* One record per evaluation of the loop body (or of the loop test that
\* ends upRestore): i the index on entry, n the size, reads the slots the
\* comparisons read, swapped whether swap was called; parent and child are
\* the two slots handed to swap, pprio and cprio their priorities before.
Iter(i, n, reads, swapped, parent, child, pprio, cprio) ==
  [i |-> i, n |-> n, reads |-> reads, swapped |-> swapped,
   parent |-> parent, child |-> child, pprio |-> pprio, cprio |-> cprio]

\* mutant of upRestoreRun: the comparison is <= for <
RECURSIVE upRestoreRun_le(_, _, _)
upRestoreRun_le(q, i, fuel) ==
  IF fuel = 0 THEN [q |-> q, done |-> FALSE, iters |-> << >>]
  ELSE IF i > 0 /\ q.heap[i].priority <= q.heap[i \div 2].priority
  THEN LET r == upRestoreRun_le(swap(q, i, i \div 2), i \div 2, fuel - 1)
       IN  [r EXCEPT !.iters =
              <<Iter(i, q.size, {i, i \div 2}, TRUE, i \div 2, i,
                     q.heap[i \div 2].priority, q.heap[i].priority)>> \o @]
  ELSE [q |-> q, done |-> TRUE,
        iters |-> <<Iter(i, q.size, IF i > 0 THEN {i, i \div 2} ELSE {},
                         FALSE, i, i, NoPrio, NoPrio)>>]

\* upRestore run for at most fuel loop tests: the queue it leaves, whether
\* the loop was left, and its iterations
RECURSIVE upRestoreRun(_, _, _)
upRestoreRun(q, i, fuel) ==
  IF fuel = 0 THEN [q |-> q, done |-> FALSE, iters |-> << >>]
  ELSE IF i > 0 /\ q.heap[i].priority < q.heap[i \div 2].priority
  THEN LET r == upRestoreRun(swap(q, i, i \div 2), i \div 2, fuel - 1)
       IN  [r EXCEPT !.iters =
              <<Iter(i, q.size, {i, i \div 2}, TRUE, i \div 2, i,
                     q.heap[i \div 2].priority, q.heap[i].priority)>> \o @]
  ELSE [q |-> q, done |-> TRUE,
        iters |-> <<Iter(i, q.size, IF i > 0 THEN {i, i \div 2} ELSE {},
                         FALSE, i, i, NoPrio, NoPrio)>>]

\* mutant of downRestoreRun: the else branch with its break is missing
RECURSIVE downRestoreRun_nobreak(_, _, _)
downRestoreRun_nobreak(q, i, fuel) ==
  IF fuel = 0 THEN [q |-> q, done |-> FALSE, iters |-> << >>]
  ELSE
    LET l    == 2*i < q.size
        r    == 2*i + 1 < q.size
        min0 == i
        min1 == IF l /\ q.heap[2*i].priority < q.heap[min0].priority
                THEN 2*i ELSE min0
        min2 == IF r /\ q.heap[2*i + 1].priority < q.heap[min1].priority
                THEN 2*i + 1 ELSE min1
        reads == (IF l THEN {2*i, min0} ELSE {})
                 \cup (IF r THEN {2*i + 1, min1} ELSE {})
    IN  IF min2 # i
        THEN LET t == downRestoreRun_nobreak(swap(q, i, min2), min2, fuel - 1)
             IN  [t EXCEPT !.iters =
                    <<Iter(i, q.size, reads, TRUE, i, min2,
                           q.heap[i].priority, q.heap[min2].priority)>> \o @]
        ELSE LET t == downRestoreRun_nobreak(q, i, fuel - 1)
             IN  [t EXCEPT !.iters =
                    <<Iter(i, q.size, reads, FALSE, i, i, NoPrio, NoPrio)>>
                    \o @]

\* downRestore run for at most fuel evaluations of the loop body
RECURSIVE downRestoreRun(_, _, _)
downRestoreRun(q, i, fuel) ==
  IF fuel = 0 THEN [q |-> q, done |-> FALSE, iters |-> << >>]
  ELSE
    LET l    == 2*i < q.size
        r    == 2*i + 1 < q.size
        min0 == i
        min1 == IF l /\ q.heap[2*i].priority < q.heap[min0].priority
                THEN 2*i ELSE min0
        min2 == IF r /\ q.heap[2*i + 1].priority < q.heap[min1].priority
                THEN 2*i + 1 ELSE min1
        reads == (IF l THEN {2*i, min0} ELSE {})
                 \cup (IF r THEN {2*i + 1, min1} ELSE {})
    IN  IF min2 # i
        THEN LET t == downRestoreRun(swap(q, i, min2), min2, fuel - 1)
             IN  [t EXCEPT !.iters =
                    <<Iter(i, q.size, reads, TRUE, i, min2,
                           q.heap[i].priority, q.heap[min2].priority)>> \o @]
        ELSE [q |-> q, done |-> TRUE,
              iters |-> <<Iter(i, q.size, reads, FALSE, i, i,
                               NoPrio, NoPrio)>>]

\* ---- the sift functions on any array content ----
\* upRestore and downRestore are private; here they are called directly,
\* on an array of size entries holding any priorities (positions in
\* place), from any index below size.  ret.val is the number of
\* iterations the call ran.
InitSift ==
  /\ T = Unit
  /\ maxSize = SiftCap
  /\ size \in 0..SiftCap
  /\ \E f \in [0..(size - 1) -> Priorities] :
       heap = [i \in 0..(size - 1) |-> PriorityItem(f[i], "a", i)]
  /\ freed = FALSE
  /\ ret = Ret("new", "return", "void", 83, NoPrio)
  /\ alive = TRUE
  /\ objects = size

UpRestore(i) ==
  /\ alive
  /\ i \in 0..(size - 1)
  /\ Install(upRestore(Q, i))
  /\ ret' = Ret("upRestore", "return",
                Len(upRestoreRun(Q, i, size + 1).iters), 164, NoPrio)
  /\ UNCHANGED <<T, maxSize, freed, alive, objects>>

DownRestore(i) ==
  /\ alive
  /\ i \in 0..(size - 1)
  /\ Install(downRestore(Q, i))
  /\ ret' = Ret("downRestore", "return",
                Len(downRestoreRun(Q, i, size + 1).iters), 196, NoPrio)
  /\ UNCHANGED <<T, maxSize, freed, alive, objects>>

NextSift ==
  \/ \E i \in 0..(size - 1) : UpRestore(i)
  \/ \E i \in 0..(size - 1) : DownRestore(i)

SpecSift == InitSift /\ [][NextSift]_vars

\* ---- the slots of the heap array each call reads or writes ----
\* by: the function that makes the access; rw: "r" or "w"; at: the index;
\* n: size at the moment of the access
Acc(by, rw, at, n) == [by |-> by, rw |-> rw, at |-> at, n |-> n]

\* the accesses of a sift run: the comparisons read, swap writes both slots
RunAccesses(by, run) ==
  UNION {{Acc(by, "r", a, run.iters[k].n) : a \in run.iters[k].reads}
         \cup (IF run.iters[k].swapped
               THEN {Acc("swap", "w", run.iters[k].parent, run.iters[k].n),
                     Acc("swap", "w", run.iters[k].child, run.iters[k].n)}
               ELSE {})
         : k \in DOMAIN run.iters}

minAccesses(q) ==
  IF q.size > 0 THEN {Acc("min", "r", 0, q.size)} ELSE {}

\* mutant of emplaceAccesses: the capacity test is off by one
emplaceAccesses_offByOne(q, cap, priority, item) ==
  IF q.size > cap THEN {}
  ELSE LET h1 == (q.size :> PriorityItem(priority, item, q.size)) @@ q.heap
           q1 == [size |-> (q.size + 1) % PosMod, heap |-> h1]
       IN  {Acc("emplace", "w", q.size, q.size)}                \* line 210
           \cup RunAccesses("upRestore",
                            upRestoreRun(q1, (q1.size - 1) % PosMod, q1.size + 1))

emplaceAccesses(q, cap, priority, item) ==
  IF q.size >= cap THEN {}
  ELSE LET h1 == (q.size :> PriorityItem(priority, item, q.size)) @@ q.heap
           q1 == [size |-> (q.size + 1) % PosMod, heap |-> h1]
       IN  {Acc("emplace", "w", q.size, q.size)}                \* line 210
           \cup RunAccesses("upRestore",
                            upRestoreRun(q1, (q1.size - 1) % PosMod, q1.size + 1))

decreaseAccesses(q, newPriority, pi) ==
  IF newPriority >= q.heap[pi].priority THEN {}
  ELSE LET q1 == [q EXCEPT !.heap[q.heap[pi].pos].priority = newPriority]
       IN  {Acc("decrease", "r", q.heap[pi].pos, q.size)}       \* line 226
           \cup RunAccesses("upRestore",
                            upRestoreRun(q1, q.heap[pi].pos, q.size + 1))

increaseAccesses(q, newPriority, pi) ==
  IF newPriority <= q.heap[pi].priority THEN {}
  ELSE LET q1 == [q EXCEPT !.heap[q.heap[pi].pos].priority = newPriority]
       IN  {Acc("increase", "r", q.heap[pi].pos, q.size)}       \* line 240
           \cup RunAccesses("downRestore",
                            downRestoreRun(q1, q.heap[pi].pos, q.size + 1))

deleteMinAccesses(q) ==
  IF q.size <= 0 THEN {}
  ELSE LET q1 == IF q.size > 1 THEN swap(q, 0, q.size - 1) ELSE q
           q2 == [size |-> q1.size - 1,
                  heap |-> Restrict(q1.heap, 0..(q1.size - 2))]
       IN  (IF q.size > 1
            THEN {Acc("swap", "w", 0, q.size),
                  Acc("swap", "w", q.size - 1, q.size)}         \* line 253
            ELSE {})
           \cup {Acc("deleteMin", "r", q.size - 1, q.size)}     \* line 254
           \cup (IF q2.size > 1
                 THEN RunAccesses("downRestore",
                                  downRestoreRun(q2, 0, q2.size + 1))
                 ELSE {})

\* ---------------------------------------------------------------------
\* Claims
\* ---------------------------------------------------------------------

Slots == 0..(size - 1)

MinIsMinimum ==
  /\ size > 0 => \A i \in Slots : heap[0].priority <= heap[i].priority
  /\ (ret.op = "min" /\ ret.exit = "return") =>
       \E i \in Slots : /\ heap[i].item = ret.val
                         /\ \A j \in Slots : heap[i].priority <= heap[j].priority

\* C2 witness: min() answered on a queue of three or more entries holding
\* an entry of larger priority and another value
MinWitness ==
  /\ ret.op = "min" /\ ret.exit = "return"
  /\ size >= 3
  /\ \E i \in Slots : /\ heap[i].priority > heap[0].priority
                        /\ heap[i].item # ret.val

\* C3: after every public operation every live entry records the index
\* of the slot that points to it (so the recorded positions are in [0, n)
\* and distinct).
PositionConsistency ==
  \A i \in Slots : heap[i].pos = i

\* C3 witness: a deleteMin that swapped the root with the last of four or
\* more entries and sifted down
PositionWitness ==
  /\ ret.op = "deleteMin" /\ ret.line = 259
  /\ size >= 3
  /\ heap[0].priority < heap[size - 1].priority

\* C4: each deleteMin deletes the entry at index 0, and the entry it
\* leaves at index 0 (the one the next deleteMin deletes) has a priority
\* >= that of the entry just deleted.
DrainNonDecreasing ==
  [][(ret'.op = "deleteMin" /\ ret'.line = 259) =>
       /\ ret'.rem = heap[0].priority
       /\ size' > 0 => heap'[0].priority >= ret'.rem]_vars

\* C4 witness: a deleteMin has deleted an entry and left two or more, the
\* new root strictly above the deleted priority
DrainWitness ==
  /\ ret.op = "deleteMin" /\ ret.line = 259
  /\ size >= 2
  /\ heap[0].priority > ret.rem

\* the client loop of C5: k times, read the entry min() answers from and
\* call deleteMin
RECURSIVE drain(_, _, _)
drain(q, k, out) ==
  IF k = 0 \/ q.size <= 0 THEN [q |-> q, out |-> out]
  ELSE drain(deleteMin(q), k - 1,
             Append(out, [priority |-> q.heap[0].priority, item |-> min(q).val]))

Entries == [priority : Priorities, item : T]

\* C5: n successive min()+deleteMin steps return the live entries, each
\* exactly once, in non-decreasing order of priority, and leave the queue
\* empty.
DrainSorted ==
  LET d == drain(Q, size, << >>)
  IN  /\ Len(d.out) = size
      /\ d.q.size = 0
      /\ \A k \in 1..(Len(d.out) - 1) : d.out[k].priority <= d.out[k + 1].priority
      /\ \A e \in Entries :
           Cardinality({k \in 1..Len(d.out) : d.out[k] = e})
             = Cardinality({i \in Slots : /\ heap[i].priority = e.priority
                                           /\ heap[i].item = e.item})

\* C5 witness: four or more entries of three priorities and two values,
\* re-ordered by an increase, whose array order is not the sorted order
DrainSortedWitness ==
  /\ size >= 4
  /\ ret.op = "increase" /\ ret.line = 242
  /\ Cardinality({heap[i].priority : i \in Slots}) >= 3
  /\ Cardinality({heap[i].item : i \in Slots}) >= 2
  /\ \E i, j \in Slots : i < j /\ heap[i].priority > heap[j].priority

\* C6: a decrease with p_new >= the current priority (the call leaves through
\* line 225), and an increase with p_new <= the current priority (line 239),
\* change neither size nor any slot, priority, value or recorded position.
NoOpFrame ==
  [][(\/ ret'.op = "decrease" /\ ret'.line = 225
      \/ ret'.op = "increase" /\ ret'.line = 239)
     => UNCHANGED <<size, heap>>]_vars

\* C6 witness: a decrease that left through the guard of line 224 on a
\* queue of two or more entries
NoOpWitness ==
  /\ ret.op = "decrease" /\ ret.line = 225
  /\ size >= 2

\* C7: the priority of every live entry is the last one written through its
\* own handle (at emplace, or by a decrease/increase that was not a no-op).
LastWritten ==
  \A i \in Slots : heap[i].priority = heap[i].written

\* C7 witness: an increase wrote a new priority into an entry that was
\* emplaced with a smaller one, among three or more entries
LastWrittenWitness ==
  /\ ret.op = "increase" /\ ret.line = 242
  /\ size >= 3
  /\ \E i \in Slots : i > 0 /\ heap[i].written > heap[0].written

\* C8: a decrease or increase through a stale handle fails with
\* InvalidHandle and changes no live entry's priority or position.
StaleHandleRejected ==
  [][ret'.op \in {"decrease stale", "increase stale"} =>
       /\ ret'.exit = "throw" /\ ret'.val = "InvalidHandle"
       /\ UNCHANGED <<size, heap>>]_vars

EmplaceFull ==
  [][ret'.op = "emplace" =>
       /\ (ret'.val = "nullptr") <=> isFull(Q, maxSize)
       /\ ret'.val = "nullptr" => UNCHANGED <<size, heap>>
       /\ size < maxSize => (ret'.val = "handle" /\ size' = size + 1)]_vars

\* C10 witness: emplace refused on a queue that is full again after a
\* deletion
EmplaceFullWitness ==
  /\ ret.op = "emplace" /\ ret.val = "nullptr"
  /\ size = maxSize /\ maxSize >= 2 /\ freed

\* C11: min() never modifies the queue.  Called with size > 0 it returns
\* the value stored at index 0; called with size = 0 it throws "Empty
\* priority queue!"; in both cases size and every slot, priority, value and
\* position are what they were before the call.
MinFrame ==
  [][ret'.op = "min"
     => /\ UNCHANGED <<size, heap, objects, freed>>
        /\ size > 0 => ret'.exit = "return" /\ ret'.val = heap[0].item
        /\ size = 0 => /\ ret'.exit = "throw"
                       /\ ret'.val = "Empty priority queue!"]_vars

MinFrameWitness ==
  /\ ret.op = "min" /\ ret.exit = "throw"
  /\ freed /\ size = 0 /\ maxSize >= 2

\* C12: a successful emplace increases size by exactly 1, a deleteMin on a
\* non-empty queue decreases it by exactly 1, and every other call
\* (decrease, increase, min, isEmpty, isFull, a refused emplace, a deleteMin
\* on the empty queue) leaves it unchanged; size starts at 0, so it is the
\* number of successful emplace calls minus that of successful deleteMin
\* calls.
SizeCounts ==
  [][/\ ret.op = "new" => size = 0
     /\ IF ret'.op = "emplace" /\ ret'.val = "handle"
          THEN size' = size + 1
          ELSE IF ret'.op = "deleteMin" /\ size > 0
          THEN size' = size - 1 /\ ret'.line = 259
          ELSE ret'.op \in {"decrease", "increase", "min", "isEmpty",
                            "isFull", "emplace", "deleteMin"}
               => size' = size]_vars

SizeCountsWitness ==
  /\ ret.op = "emplace" /\ ret.val = "handle"
  /\ freed /\ size >= 2 /\ size < maxSize

\* C13: 0 <= size <= maxSize in every state, and the live entries occupy
\* exactly the slots [0, size): each of them holds an entry and no slot
\* from size on does.
Contiguous ==
  /\ size \in 0..maxSize
  /\ DOMAIN heap = 0..(size - 1)
  /\ \A i \in DOMAIN heap :
       heap[i] \in [priority : Priorities, item : T,
                    pos : 0..(maxSize - 1), written : Priorities]

ContiguousWitness ==
  /\ ret.op = "deleteMin" /\ ret.line = 259
  /\ size = maxSize - 1 /\ size >= 3

\* C14: every object created by a successful emplace is deleted exactly
\* once: while the queue lives, the objects not yet deleted are exactly
\* the size objects of slots [0, size) (deleteMin has deleted the one it
\* removed), and the destructor deletes exactly those, leaving none.
DestroyedOnce ==
  /\ alive => objects = size /\ DOMAIN heap = 0..(size - 1)
  /\ ~alive => objects = 0
  /\ objects >= 0

DestroyedOnceWitness ==
  /\ ~alive /\ ret.op = "~BinHeapPQ"
  /\ freed /\ size >= 2 /\ size < maxSize

\* the tree the source's arithmetic defines on the slots
ParentOf(i) == i \div 2
ChildrenOf(i) == {2*i, 2*i + 1}

\* C15: with parent i/2 and children 2i, 2i+1 the slots [0, size) form a
\* tree rooted at index 0 (every other slot has its parent at a smaller
\* index and is one of that parent's children), and the heap is in order
\* along it: priority[i] >= priority[i/2] for every i in [1, size).
SourceTreeOrder ==
  /\ \A i \in 1..(size - 1) : /\ ParentOf(i) \in 0..(i - 1)
                              /\ i \in ChildrenOf(ParentOf(i))
  /\ \A i \in Slots : \A c \in ChildrenOf(i) \cap 1..(size - 1) :
       ParentOf(c) = i
  /\ \A i \in 1..(size - 1) : heap[i].priority >= heap[ParentOf(i)].priority

SourceTreeWitness ==
  /\ ret.op = "decrease" /\ ret.line = 228
  /\ size >= 7 /\ heap[6].priority < heap[2].priority

\* an entry without its position
Entry(o) == [priority |-> o.priority, item |-> o.item, written |-> o.written]
Count(h, e) == Cardinality({i \in DOMAIN h : Entry(h[i]) = e})

\* C16: deleteMin on a non-empty queue removes exactly the entry that was
\* at index 0: that object is the one deleted, its handle is stale, and the
\* entries left are the previous ones minus that one, each with its
\* priority and value; with size = 1 the queue becomes empty.
DeleteMinFrame ==
  [][(ret'.op = "deleteMin" /\ size > 0)
     => /\ ret'.rem = heap[0].priority
        /\ freed'
        /\ size' = size - 1
        /\ \A e \in [priority : Priorities, item : T, written : Priorities] :
             Count(heap', e) = Count(heap, e)
                               - (IF e = Entry(heap[0]) THEN 1 ELSE 0)
        /\ size = 1 => heap' = << >>]_vars

DeleteMinFrameWitness ==
  /\ ret.op = "deleteMin" /\ ret.line = 259
  /\ size >= 3 /\ \E i \in Slots : heap[i].priority = ret.rem
  /\ \E i, j \in Slots : heap[i].item # heap[j].item

\* C17: on any array content and from any start index i < size,
\* downRestore leaves its loop, within size evaluations of the body: every
\* evaluation but the last swaps, and a swap moves i to a strictly larger
\* index (from 0, to index 1 only); upRestore leaves its loop within i + 1
\* tests, every swap moving i to a strictly smaller index.
SiftTerminates ==
  \A i \in Slots :
    LET d == downRestoreRun(Q, i, size + 1)
        u == upRestoreRun(Q, i, size + 1)
    IN  /\ d.done
        /\ Len(d.iters) \in 1..size
        /\ \A k \in DOMAIN d.iters :
             /\ d.iters[k].swapped <=> k < Len(d.iters)
             /\ d.iters[k].swapped
                => /\ d.iters[k].child > d.iters[k].i
                   /\ d.iters[k].i = 0 => d.iters[k].child = 1
        /\ d.q = downRestore(Q, i)
        /\ u.done
        /\ Len(u.iters) \in 1..(i + 1)
        /\ \A k \in DOMAIN u.iters :
             /\ u.iters[k].swapped <=> k < Len(u.iters)
             /\ u.iters[k].swapped => u.iters[k].parent < u.iters[k].i
        /\ u.q = upRestore(Q, i)

\* C17 witness: a downRestore that swapped three times before its break
SiftTerminatesWitness ==
  /\ ret.op = "downRestore"
  /\ ret.val = 4

\* C18: every swap made by upRestore or downRestore, on any array content
\* and from any index, exchanges a parent with a child of strictly smaller
\* priority; a sift whose entry ties with its parent (upRestore) or with
\* its smallest child (downRestore) makes no swap from there.
NoEqualSwap ==
  \A i \in Slots :
    LET d == downRestoreRun(Q, i, size + 1)
        u == upRestoreRun(Q, i, size + 1)
        kids == {c \in {2*i, 2*i + 1} : c < size}
    IN  /\ \A k \in DOMAIN d.iters :
             d.iters[k].swapped => d.iters[k].cprio < d.iters[k].pprio
        /\ \A k \in DOMAIN u.iters :
             u.iters[k].swapped => u.iters[k].cprio < u.iters[k].pprio
        /\ (i > 0 /\ heap[i].priority = heap[i \div 2].priority)
           => upRestore(Q, i) = Q
        /\ (\A c \in kids : heap[c].priority >= heap[i].priority)
           => downRestore(Q, i) = Q

\* C18 witness: after a sift that swapped, an array in which an entry ties
\* with its parent and with its smallest child
NoEqualSwapWitness ==
  /\ ret.op \in {"upRestore", "downRestore"}
  /\ ret.val >= 3
  /\ \E i \in 1..(size - 1) :
       /\ heap[i].priority = heap[i \div 2].priority
       /\ 2*i + 1 < size
       /\ heap[2*i].priority = heap[i].priority
       /\ heap[2*i + 1].priority > heap[i].priority

\* the accesses of every call that can be made in this state with a live
\* handle
Accesses ==
  minAccesses(Q)
  \cup UNION {emplaceAccesses(Q, maxSize, p, v) : p \in Priorities, v \in T}
  \cup UNION {decreaseAccesses(Q, p, pi) : p \in Priorities, pi \in Slots}
  \cup UNION {increaseAccesses(Q, p, pi) : p \in Priorities, pi \in Slots}
  \cup deleteMinAccesses(Q)

\* C19 (as stated): every read or write of the heap array by a call made
\* with a live handle is at an index in [0, n), n the size at the moment
\* of the access, n <= maxSize.
AccessBelowSize ==
  alive => \A a \in Accesses : a.n <= maxSize /\ a.at \in 0..(a.n - 1)

\* C19 (amended): every such access is at an index in [0, n), except the
\* store of line 210, by which emplace writes the new pointer into slot n,
\* the first vacant one, with n < maxSize, before it increments size; every
\* read is below n and every access is inside the array.
AccessBelowSizeOrAppend ==
  alive =>
    \A a \in Accesses :
      /\ a.n <= maxSize
      /\ a.at \in 0..(maxSize - 1)
      /\ a.at \in 0..(a.n - 1)
         \/ (a.by = "emplace" /\ a.rw = "w" /\ a.at = a.n /\ a.n < maxSize)

\* C19 witness: after a deleteMin, a queue with room left in which a call
\* makes downRestore swap down to the last slot and emplace stores at size
AccessWitness ==
  /\ alive /\ freed /\ ret.op = "deleteMin"
  /\ size >= 4 /\ size < maxSize
  /\ Acc("swap", "w", size - 1, size) \in
       UNION {increaseAccesses(Q, p, 0) : p \in Priorities}
  /\ Acc("emplace", "w", size, size) \in Accesses
====
